---- MODULE Spec2Model ----
(***************************************************************************)
(* Model of `lighthouse account validator import`                          *)
(* (account_manager/src/validator/import.rs, cli_run).                     *)
(*                                                                         *)
(* The state is the file system the command works on (the candidate       *)
(* keystore files, the validator directory with its per-key directories    *)
(* and the validator definitions file), the local variables of cli_run     *)
(* and what the command has printed and returned.  Every fallible call of  *)
(* cli_run is one step with one outcome per result the call can have.      *)
(***************************************************************************)
EXTENDS Integers, Sequences, FiniteSets, TLC

\* Bounds of the model.
MaxCandidates == 2    \* keystore files below the source path
NumIds == 2           \* distinct public keys
NumPw == 2            \* distinct non-empty passwords
MaxWrong == 2         \* invalid passwords an operator offers per keystore

Identities == 1..NumIds
Candidates == 1..MaxCandidates

\* Option::None of password_opt; Some(p) is the password p itself.
None == -1
\* What read_password returns on an empty line.
EmptyInput == 0
Passwords == 0..NumPw

\* The password that unlocks the keystore at candidate path c.
CorrectPw(c) == ((c - 1) % NumPw) + 1

\* moved_path before it is computed.
NoPath == [dir |-> 0, name |-> 0]

\* The return values of cli_run; "running" until it returns.
Errors == {"ErrArgs", "ErrEnsureDir", "ErrOpen", "ErrSearch", "ErrConfig",
           "ErrPerm", "ErrJson", "ErrRead", "ErrDecrypt", "ErrRefuse",
           "ErrCreateDir", "ErrFileName", "ErrCopy", "ErrRemoveCopied",
           "ErrDelete", "ErrMoving", "ErrNewDef", "ErrSave"}

VARIABLES
    pc,              \* position in cli_run
    result,          \* "running", "Ok" or the error returned
    keystore,        \* --keystore given
    keystores_dir,   \* --directory given
    validator_dir,   \* the validator directory exists on disk
    config,          \* the definitions file exists in validator_dir
    saved,           \* the definitions held by the definitions file
    defs,            \* the definitions held in memory
    keystore_paths,  \* the candidate paths, in processing order
    i,               \* index of the candidate being processed
    pubkey,          \* keystore.pubkey() of each parsed candidate, 0 before
    password_opt,    \* the outcome of the password loop
    moved_path,      \* destination path of the current candidate
    orig,            \* orig[c]: a file exists at candidate path c
    dirs,            \* the identities whose directory 0x<pubkey> exists
    files,           \* files[id]: the files in directory 0x<id>
    offered,         \* passwords read for the current candidate, in order
    attempts,        \* decrypt attempts for the current candidate, in order
    summary,         \* the count printed by the summary line, None if not printed
    loaded,          \* the definitions file as it was when the run started
    root0,           \* the validator directory as it was when the run started
    save_calls       \* save_calls[c]: the calls of defs.save made for candidate c

vars == <<pc, result, keystore, keystores_dir, validator_dir, config, saved, defs,
          keystore_paths, i, pubkey, password_opt, moved_path, orig, dirs, files,
          offered, attempts, summary, loaded, root0, save_calls>>

fsVars == <<validator_dir, config, saved, orig, dirs, files>>
argVars == <<keystore, keystores_dir>>
ghostVars == <<loaded, root0, save_calls>>
loopVars == <<keystore_paths, i, pubkey, password_opt, moved_path, offered, attempts>>

----------------------------------------------------------------------------
\* Data.

\* A file inside a per-key directory: its name, the public key of the keystore
\* whose bytes it holds and whether it holds all of them.
KeyFile(n, id, w) == [name |-> n, pk |-> id, whole |-> w]

\* The keystore a previous import left in directory 0x<id>.
OldFile(id) == KeyFile(0, id, TRUE)

Definition(id, path, pw) ==
    [identity |-> id, path |-> path, password |-> pw, enabled |-> TRUE]

\* The definition a previous import registered for id.
OldDefinition(id) == Definition(id, [dir |-> id, name |-> 0], None)

RECURSIVE SeqOfSet(_)
SeqOfSet(S) ==
    IF S = {} THEN <<>>
    ELSE LET m == CHOOSE x \in S : \A y \in S : x <= y
         IN <<m>> \o SeqOfSet(S \ {m})

IdsOf(reg) == {reg[k].identity : k \in 1..Len(reg)}

Unique(reg) == \A a, b \in 1..Len(reg) : reg[a].identity = reg[b].identity => a = b

\* A file named p.name exists in directory p.dir.
PathExists(p, D, F) == p.dir \in D /\ \E f \in F[p.dir] : f.name = p.name

----------------------------------------------------------------------------
Init ==
    /\ pc = "args"
    /\ result = "running"
    /\ keystore = FALSE
    /\ keystores_dir = FALSE
    /\ \E n \in 0..MaxCandidates : orig = [c \in Candidates |-> c <= n]
    /\ validator_dir \in BOOLEAN
    /\ config \in BOOLEAN
    /\ config => validator_dir
    /\ \E S \in SUBSET Identities :
          /\ S # {} => config
          /\ saved = [k \in 1..Cardinality(S) |-> OldDefinition(SeqOfSet(S)[k])]
    /\ dirs \in SUBSET Identities
    /\ dirs # {} => validator_dir
    /\ \E G \in SUBSET dirs :
          files = [id \in Identities |-> IF id \in G THEN {OldFile(id)} ELSE {}]
    /\ defs = <<>>
    /\ keystore_paths = <<>>
    /\ i = 0
    /\ pubkey = [c \in Candidates |-> 0]
    /\ password_opt = None
    /\ moved_path = NoPath
    /\ offered = <<>>
    /\ attempts = <<>>
    /\ summary = None
    /\ loaded = saved
    /\ root0 = [dirs |-> dirs, files |-> files,
                validator_dir |-> validator_dir, config |-> config]
    /\ save_calls = [c \in Candidates |-> 0]

\* `return Err(e)` / `?`.
Return(e) ==
    /\ pc' = "done"
    /\ result' = e

\* The candidate of the current loop iteration and its destination directory.
Cur == keystore_paths[i]
DestDir == pubkey[Cur]

----------------------------------------------------------------------------
\* Lines 70-77: the arguments.
ParseArgs ==
    /\ pc = "args"
    /\ \/ /\ keystore' \in BOOLEAN
          /\ keystores_dir' \in BOOLEAN
          /\ pc' = "ensure_dir"
          /\ UNCHANGED result
       \/ /\ Return("ErrArgs")
          /\ UNCHANGED argVars
    /\ UNCHANGED <<fsVars, defs, loopVars, summary, ghostVars>>

\* Line 79: ensure_dir_exists(&validator_dir)?
EnsureDirExists ==
    /\ pc = "ensure_dir"
    /\ \/ /\ validator_dir' = TRUE
          /\ pc' = "open"
          /\ UNCHANGED result
       \/ /\ ~validator_dir
          /\ Return("ErrEnsureDir")
          /\ UNCHANGED validator_dir
    /\ UNCHANGED <<argVars, config, saved, orig, dirs, files, defs, loopVars,
                   summary, ghostVars>>

\* Lines 81-82: ValidatorDefinitions::open_or_create(&validator_dir).
OpenOrCreate ==
    /\ pc = "open"
    /\ \/ /\ config' = TRUE
          /\ defs' = saved
          /\ pc' = "collect"
          /\ UNCHANGED result
       \/ /\ Return("ErrOpen")
          /\ UNCHANGED <<config, defs>>
    /\ UNCHANGED <<argVars, validator_dir, saved, orig, dirs, files, loopVars,
                   summary, ghostVars>>

\* recursively_find_voting_keystores: the keystore files below the directory.
FindVotingKeystores == SeqOfSet({c \in Candidates : orig[c]})

\* CollectPaths without the early return of lines 93-96: an empty search
\* result goes on to the loop and the summary.
CollectPaths_NoEmptyCheck ==
    /\ pc = "collect"
    /\ \/ /\ keystore /\ ~keystores_dir
          /\ keystore_paths' = <<1>>
          /\ i' = 1
          /\ pc' = "perm_check"
          /\ UNCHANGED result
       \/ /\ ~keystore /\ keystores_dir
          /\ keystore_paths' = FindVotingKeystores
          /\ IF FindVotingKeystores # <<>>
             THEN i' = 1 /\ pc' = "perm_check"
             ELSE i' = i /\ pc' = "summary"
          /\ UNCHANGED result
       \/ /\ ~keystore /\ keystores_dir
          /\ Return("ErrSearch")
          /\ UNCHANGED <<keystore_paths, i>>
       \/ /\ keystore = keystores_dir
          /\ Return("ErrConfig")
          /\ UNCHANGED <<keystore_paths, i>>
    /\ UNCHANGED <<argVars, fsVars, defs, pubkey, password_opt, moved_path, offered,
                   attempts, summary, ghostVars>>

\* Lines 85-106: the candidate paths.
CollectPaths ==
    /\ pc = "collect"
    /\ \/ /\ keystore /\ ~keystores_dir
          /\ keystore_paths' = <<1>>
          /\ i' = 1
          /\ pc' = "perm_check"
          /\ UNCHANGED result
       \/ /\ ~keystore /\ keystores_dir
          /\ FindVotingKeystores # <<>>
          /\ keystore_paths' = FindVotingKeystores
          /\ i' = 1
          /\ pc' = "perm_check"
          /\ UNCHANGED result
       \/ /\ ~keystore /\ keystores_dir
          /\ FindVotingKeystores = <<>>
          /\ Return("Ok")
          /\ UNCHANGED <<keystore_paths, i>>
       \/ /\ ~keystore /\ keystores_dir
          /\ Return("ErrSearch")
          /\ UNCHANGED <<keystore_paths, i>>
       \/ /\ keystore = keystores_dir
          /\ Return("ErrConfig")
          /\ UNCHANGED <<keystore_paths, i>>
    /\ UNCHANGED <<argVars, fsVars, defs, pubkey, password_opt, moved_path, offered,
                   attempts, summary, ghostVars>>

----------------------------------------------------------------------------
\* The loop of lines 115-223, one candidate per iteration.

\* The head of the loop after iteration i: the next candidate, or the end.
NextCandidate ==
    IF i < Len(keystore_paths)
    THEN /\ i' = i + 1
         /\ pc' = "perm_check"
         /\ password_opt' = None
         /\ moved_path' = NoPath
         /\ offered' = <<>>
         /\ attempts' = <<>>
    ELSE /\ pc' = "summary"
         /\ UNCHANGED <<i, password_opt, moved_path, offered, attempts>>

\* PermissionCheck with a failure that skips the candidate and goes on with
\* the next one instead of returning.
PermissionCheck_Continue ==
    /\ pc = "perm_check"
    /\ \/ /\ orig[Cur]
          /\ pc' = "parse"
          /\ UNCHANGED <<i, password_opt, moved_path, offered, attempts>>
       \/ NextCandidate
    /\ UNCHANGED <<argVars, fsVars, defs, keystore_paths, pubkey, result, summary,
                   ghostVars>>

\* Lines 118-128: open the keystore for reading and writing, without creating it.
PermissionCheck ==
    /\ pc = "perm_check"
    /\ \/ /\ orig[Cur]
          /\ pc' = "parse"
          /\ UNCHANGED result
       \/ /\ Return("ErrPerm")
    /\ UNCHANGED <<argVars, fsVars, defs, loopVars, summary, ghostVars>>

\* Lines 130-131: Keystore::from_json_file(keystore_path).
ParseKeystore ==
    /\ pc = "parse"
    /\ \/ /\ \E id \in Identities : pubkey' = [pubkey EXCEPT ![Cur] = id]
          /\ pc' = "password"
          /\ UNCHANGED result
       \/ /\ Return("ErrJson")
          /\ UNCHANGED pubkey
    /\ UNCHANGED <<argVars, fsVars, defs, keystore_paths, i, password_opt, moved_path,
                   offered, attempts, summary, ghostVars>>

\* keystore.decrypt_keypair(password): what it can answer for password p.
DecryptOutcomes(c, p) ==
    IF p = CorrectPw(c) THEN {"Ok", "Other"} ELSE {"InvalidPassword", "Other"}

\* PasswordLoop with the InvalidPassword arm breaking with the password, as
\* the Ok arm does.
PasswordLoop_BreakOnInvalid ==
    /\ pc = "password"
    /\ \/ /\ Return("ErrRead")
          /\ UNCHANGED <<password_opt, offered, attempts>>
       \/ /\ offered' = Append(offered, EmptyInput)
          /\ password_opt' = None
          /\ pc' = "dup_check"
          /\ UNCHANGED <<result, attempts>>
       \/ \E p \in Passwords \ {EmptyInput} : \E o \in DecryptOutcomes(Cur, p) :
             /\ offered' = Append(offered, p)
             /\ attempts' = Append(attempts, [pw |-> p, res |-> o])
             /\ CASE o \in {"Ok", "InvalidPassword"} ->
                        /\ password_opt' = p
                        /\ pc' = "dup_check"
                        /\ UNCHANGED result
                  [] OTHER ->
                        /\ Return("ErrDecrypt")
                        /\ UNCHANGED password_opt
    /\ UNCHANGED <<argVars, fsVars, defs, keystore_paths, i, pubkey, moved_path,
                   summary, ghostVars>>

\* PasswordLoop with every decrypt error handled like InvalidPassword: the
\* prompt is repeated.
PasswordLoop_RetryOnOther ==
    /\ pc = "password"
    /\ \/ /\ Return("ErrRead")
          /\ UNCHANGED <<password_opt, offered, attempts>>
       \/ /\ offered' = Append(offered, EmptyInput)
          /\ password_opt' = None
          /\ pc' = "dup_check"
          /\ UNCHANGED <<result, attempts>>
       \/ \E p \in Passwords \ {EmptyInput} : \E o \in DecryptOutcomes(Cur, p) :
             /\ offered' = Append(offered, p)
             /\ attempts' = Append(attempts, [pw |-> p, res |-> o])
             /\ CASE o = "Ok" ->
                        /\ password_opt' = p
                        /\ pc' = "dup_check"
                        /\ UNCHANGED result
                  [] OTHER ->
                        /\ Len(attempts) < MaxWrong
                        /\ UNCHANGED <<pc, result, password_opt>>
    /\ UNCHANGED <<argVars, fsVars, defs, keystore_paths, i, pubkey, moved_path,
                   summary, ghostVars>>

\* Lines 145-169: one turn of the password loop.
PasswordLoop ==
    /\ pc = "password"
    /\ \/ \* read_password(no_tty)? fails
          /\ Return("ErrRead")
          /\ UNCHANGED <<password_opt, offered, attempts>>
       \/ \* an empty password: break None
          /\ offered' = Append(offered, EmptyInput)
          /\ password_opt' = None
          /\ pc' = "dup_check"
          /\ UNCHANGED <<result, attempts>>
       \/ \E p \in Passwords \ {EmptyInput} : \E o \in DecryptOutcomes(Cur, p) :
             /\ offered' = Append(offered, p)
             /\ attempts' = Append(attempts, [pw |-> p, res |-> o])
             /\ CASE o = "Ok" ->
                        /\ password_opt' = p
                        /\ pc' = "dup_check"
                        /\ UNCHANGED result
                  [] o = "InvalidPassword" ->
                        /\ Len(attempts) < MaxWrong
                        /\ UNCHANGED <<pc, result, password_opt>>
                  [] OTHER ->
                        /\ Return("ErrDecrypt")
                        /\ UNCHANGED password_opt
    /\ UNCHANGED <<argVars, fsVars, defs, keystore_paths, i, pubkey, moved_path,
                   summary, ghostVars>>

\* DuplicateCheck that looks for a file in the directory instead of the
\* directory.
DuplicateCheck_FileExists ==
    /\ pc = "dup_check"
    /\ IF DestDir \in dirs /\ files[DestDir] # {}
       THEN Return("ErrRefuse")
       ELSE /\ pc' = "create_dir"
            /\ UNCHANGED result
    /\ UNCHANGED <<argVars, fsVars, defs, loopVars, summary, ghostVars>>

\* Lines 173-179: refuse a public key whose directory exists.
DuplicateCheck ==
    /\ pc = "dup_check"
    /\ IF DestDir \in dirs
       THEN Return("ErrRefuse")
       ELSE /\ pc' = "create_dir"
            /\ UNCHANGED result
    /\ UNCHANGED <<argVars, fsVars, defs, loopVars, summary, ghostVars>>

\* Lines 181-182: fs::create_dir_all(&dest_dir).
CreateDestDir ==
    /\ pc = "create_dir"
    /\ \/ /\ dirs' = dirs \cup {DestDir}
          /\ pc' = "moved_path"
          /\ UNCHANGED result
       \/ /\ Return("ErrCreateDir")
          /\ UNCHANGED dirs
    /\ UNCHANGED <<argVars, validator_dir, config, saved, orig, files, defs, loopVars,
                   summary, ghostVars>>

\* Lines 185-189: the file name of the candidate, inside dest_dir.
MovedPath ==
    /\ pc = "moved_path"
    /\ \/ /\ moved_path' = [dir |-> DestDir, name |-> Cur]
          /\ pc' = "copy"
          /\ UNCHANGED result
       \/ \* the file name is not UTF-8
          /\ Return("ErrFileName")
          /\ UNCHANGED moved_path
    /\ UNCHANGED <<argVars, fsVars, defs, keystore_paths, i, pubkey, password_opt,
                   offered, attempts, summary, ghostVars>>

\* The directory of moved_path with file f written at moved_path.
WriteFile(F, p, f) ==
    [F EXCEPT ![p.dir] = {g \in @ : g.name # p.name} \cup {f}]

\* The directory of moved_path without the file at moved_path.
RemoveFile(F, p) ==
    [F EXCEPT ![p.dir] = {g \in @ : g.name # p.name}]

\* CopyKeystore with the result of fs::copy dropped: a failed copy goes on to
\* the removal of the original.
CopyKeystore_IgnoreError ==
    /\ pc = "copy"
    /\ \/ /\ orig[Cur]
          /\ files' = WriteFile(files, moved_path, KeyFile(Cur, pubkey[Cur], TRUE))
       \/ UNCHANGED files
       \/ files' = WriteFile(files, moved_path, KeyFile(Cur, pubkey[Cur], FALSE))
    /\ pc' = "remove"
    /\ UNCHANGED <<argVars, validator_dir, config, saved, orig, dirs, defs, loopVars,
                   result, summary, ghostVars>>

\* Lines 192-193: fs::copy(&keystore_path, &moved_path).
CopyKeystore ==
    /\ pc = "copy"
    /\ \/ /\ orig[Cur]
          /\ files' = WriteFile(files, moved_path, KeyFile(Cur, pubkey[Cur], TRUE))
          /\ pc' = "remove"
          /\ UNCHANGED result
       \/ \* the copy fails before the destination file is created
          /\ Return("ErrCopy")
          /\ UNCHANGED files
       \/ \* the copy fails after some bytes were written
          /\ files' = WriteFile(files, moved_path, KeyFile(Cur, pubkey[Cur], FALSE))
          /\ Return("ErrCopy")
    /\ UNCHANGED <<argVars, validator_dir, config, saved, orig, dirs, defs, loopVars,
                   summary, ghostVars>>

\* RemoveOriginal with the result of fs::remove_file dropped: a failed removal
\* goes on to the definition.
RemoveOriginal_IgnoreError ==
    /\ pc = "remove"
    /\ \/ orig' = [orig EXCEPT ![Cur] = FALSE]
       \/ /\ orig[Cur]
          /\ UNCHANGED orig
    /\ pc' = "new_def"
    /\ UNCHANGED <<argVars, validator_dir, config, saved, dirs, files, defs, loopVars,
                   result, summary, ghostVars>>

\* Lines 197-198 and 206-208: fs::remove_file(&keystore_path) and, when it
\* fails, keystore_path.exists().
RemoveOriginal ==
    /\ pc = "remove"
    /\ \/ /\ orig' = [orig EXCEPT ![Cur] = FALSE]
          /\ pc' = "new_def"
          /\ UNCHANGED result
       \/ \* the removal fails and the original is still there
          /\ orig[Cur]
          /\ pc' = "rollback"
          /\ UNCHANGED <<orig, result>>
       \/ \* the removal fails because the original is gone already
          /\ orig' = [orig EXCEPT ![Cur] = FALSE]
          /\ Return("ErrMoving")
    /\ UNCHANGED <<argVars, validator_dir, config, saved, dirs, files, defs, loopVars,
                   summary, ghostVars>>

\* RollbackCopy that removes dest_dir with the copy in it.
RollbackCopy_RemoveDir ==
    /\ pc = "rollback"
    /\ \/ /\ files' = [files EXCEPT ![DestDir] = {}]
          /\ dirs' = dirs \ {DestDir}
          /\ Return("ErrDelete")
       \/ /\ Return("ErrRemoveCopied")
          /\ UNCHANGED <<files, dirs>>
    /\ UNCHANGED <<argVars, validator_dir, config, saved, orig, defs, loopVars,
                   summary, ghostVars>>

\* Lines 203-205: delete the copy, then report the failed removal.
RollbackCopy ==
    /\ pc = "rollback"
    /\ \/ /\ files' = RemoveFile(files, moved_path)
          /\ Return("ErrDelete")
       \/ /\ Return("ErrRemoveCopied")
          /\ UNCHANGED files
    /\ UNCHANGED <<argVars, validator_dir, config, saved, orig, dirs, defs, loopVars,
                   summary, ghostVars>>

\* ValidatorDefinition::new_keystore_with_password: the definition of the
\* keystore found at path, with the given password.
NewKeystoreWithPassword(path, pw) ==
    LET f == CHOOSE g \in files[path.dir] : g.name = path.name
    IN Definition(f.pk, path, pw)

\* PushDefinition that replaces the definitions in memory by the new one
\* instead of appending it.
PushDefinition_Replace ==
    /\ pc = "new_def"
    /\ \/ /\ PathExists(moved_path, dirs, files)
          /\ defs' = <<NewKeystoreWithPassword(moved_path, password_opt)>>
          /\ pc' = "save"
          /\ UNCHANGED result
       \/ /\ Return("ErrNewDef")
          /\ UNCHANGED defs
    /\ UNCHANGED <<argVars, fsVars, loopVars, summary, ghostVars>>

\* PushDefinition that passes None instead of password_opt.
PushDefinition_DropPassword ==
    /\ pc = "new_def"
    /\ \/ /\ PathExists(moved_path, dirs, files)
          /\ defs' = Append(defs, NewKeystoreWithPassword(moved_path, None))
          /\ pc' = "save"
          /\ UNCHANGED result
       \/ /\ Return("ErrNewDef")
          /\ UNCHANGED defs
    /\ UNCHANGED <<argVars, fsVars, loopVars, summary, ghostVars>>

\* PushDefinition that puts the new definition in front of the others.
PushDefinition_Prepend ==
    /\ pc = "new_def"
    /\ \/ /\ PathExists(moved_path, dirs, files)
          /\ defs' = <<NewKeystoreWithPassword(moved_path, password_opt)>> \o defs
          /\ pc' = "save"
          /\ UNCHANGED result
       \/ /\ Return("ErrNewDef")
          /\ UNCHANGED defs
    /\ UNCHANGED <<argVars, fsVars, loopVars, summary, ghostVars>>

\* Lines 213-217: build the definition and push it.
PushDefinition ==
    /\ pc = "new_def"
    /\ \/ /\ PathExists(moved_path, dirs, files)
          /\ defs' = Append(defs, NewKeystoreWithPassword(moved_path, password_opt))
          /\ pc' = "save"
          /\ UNCHANGED result
       \/ /\ Return("ErrNewDef")
          /\ UNCHANGED defs
    /\ UNCHANGED <<argVars, fsVars, loopVars, summary, ghostVars>>

\* ValidatorDefinitions::save is atomic: the definitions file after a failed
\* save of a file that held disk.
FailedSave(disk) == disk

\* Save with the result of defs.save dropped: a failed save goes on with the
\* next candidate.
Save_IgnoreError ==
    /\ pc = "save"
    /\ save_calls' = [save_calls EXCEPT ![Cur] = @ + 1]
    /\ \/ saved' = defs
       \/ saved' = FailedSave(saved)
    /\ NextCandidate
    /\ UNCHANGED <<argVars, validator_dir, config, orig, dirs, files, defs,
                   keystore_paths, pubkey, result, summary, loaded, root0>>

\* Lines 219-222: defs.save(&validator_dir).
Save ==
    /\ pc = "save"
    /\ save_calls' = [save_calls EXCEPT ![Cur] = @ + 1]
    /\ \/ /\ saved' = defs
          /\ NextCandidate
          /\ UNCHANGED result
       \/ /\ saved' = FailedSave(saved)
          /\ Return("ErrSave")
          /\ UNCHANGED <<i, password_opt, moved_path, offered, attempts>>
    /\ UNCHANGED <<argVars, validator_dir, config, orig, dirs, files, defs,
                   keystore_paths, pubkey, summary, loaded, root0>>

\* Summary that prints the size of the registry instead of the number of
\* candidates.
Summary_RegistrySize ==
    /\ pc = "summary"
    /\ summary' = Len(defs)
    /\ Return("Ok")
    /\ UNCHANGED <<argVars, fsVars, defs, loopVars, ghostVars>>

\* Lines 225-228: the summary line and Ok(()).
Summary ==
    /\ pc = "summary"
    /\ summary' = Len(keystore_paths)
    /\ Return("Ok")
    /\ UNCHANGED <<argVars, fsVars, defs, loopVars, ghostVars>>

Next ==
    \/ ParseArgs
    \/ EnsureDirExists
    \/ OpenOrCreate
    \/ CollectPaths
    \/ PermissionCheck
    \/ ParseKeystore
    \/ PasswordLoop
    \/ DuplicateCheck
    \/ CreateDestDir
    \/ MovedPath
    \/ CopyKeystore
    \/ RemoveOriginal
    \/ RollbackCopy
    \/ PushDefinition
    \/ Save
    \/ Summary

Spec == Init /\ [][Next]_vars

\* cli_run is one thread of blocking calls: every call returns, and the
\* operator answers every prompt, with an empty or a correct password after at
\* most MaxWrong invalid ones.
SpecFair == Spec /\ WF_vars(Next)

----------------------------------------------------------------------------
\* Properties.

\* The keystore of candidate c is, whole, at its destination path.
Copied(c) ==
    /\ pubkey[c] # 0
    /\ KeyFile(c, pubkey[c], TRUE) \in files[pubkey[c]]

\* The relocation of candidate c succeeded.
Relocated(c) == ~orig[c] /\ Copied(c)

\* The definitions file holds the definition of candidate c.
Registered(c) ==
    \E k \in 1..Len(saved) :
        /\ saved[k].identity = pubkey[c]
        /\ saved[k].path = [dir |-> pubkey[c], name |-> c]

Imported(c) == Relocated(c) /\ Registered(c)

\* Nothing of the iteration of candidate c has happened.
Untouched(c) ==
    /\ pubkey[c] = 0
    /\ orig[c]
    /\ \A id \in Identities : \A f \in files[id] : f.name # c

\* The iteration of the j-th candidate is over, by an error or by its save.
IterationOver(j) == j < i \/ (j = i /\ pc \in {"summary", "done"})

NumImported ==
    Cardinality({j \in 1..Len(keystore_paths) : Imported(keystore_paths[j])})

DistinctIds ==
    \A a, b \in 1..Len(keystore_paths) :
        pubkey[keystore_paths[a]] = pubkey[keystore_paths[b]] => a = b

\* I1 for registry reg over the directories D with files F: every identity of
\* reg has its directory, which holds the keystore of that identity, whole, and
\* nothing else, and the definition's path is that file.
I1(reg, D, F) ==
    \A k \in 1..Len(reg) :
        /\ reg[k].identity \in D
        /\ reg[k].path.dir = reg[k].identity
        /\ F[reg[k].identity] = {KeyFile(reg[k].path.name, reg[k].identity, TRUE)}

\* C1: once the iteration of a candidate is over, by success or by an error
\* return, its keystore is not both at its original path and at its
\* destination path.
C1_NoDuplicateAfterIteration ==
    \A j \in 1..Len(keystore_paths) :
        IterationOver(j) =>
            ~(orig[keystore_paths[j]] /\ Copied(keystore_paths[j]))

\* C2: after Ok for a batch of N candidates with pairwise distinct public keys
\* that started with an empty registry, the definitions file holds exactly N
\* definitions, no two with the same identity, each with a path to a file that
\* exists in the directory of its identity.
C2_RegistryConsistency ==
    (result = "Ok" /\ loaded = <<>> /\ DistinctIds) =>
        /\ Len(saved) = Len(keystore_paths)
        /\ Unique(saved)
        /\ \A k \in 1..Len(saved) :
              /\ saved[k].path.dir = saved[k].identity
              /\ PathExists(saved[k].path, dirs, files)
              /\ \E j \in 1..Len(keystore_paths) :
                    saved[k].identity = pubkey[keystore_paths[j]]

C2_Witness ==
    /\ result = "Ok"
    /\ loaded = <<>>
    /\ Len(keystore_paths) = 2
    /\ pubkey[1] # pubkey[2]
    /\ Len(saved) = 2

\* C3: no step of an iteration up to and including the duplicate check changes
\* the registry (in memory or on disk), the per-key directories, their files or
\* the candidate files; and when the destination directory exists at the
\* duplicate check, the run ends there with the refusal and stays ended.
C3_DuplicateRefusal ==
    [][ /\ (pc \in {"perm_check", "parse", "password", "dup_check"} =>
               UNCHANGED <<defs, saved, config, dirs, files, orig>>)
        /\ ((pc = "dup_check" /\ DestDir \in dirs) =>
               (pc' = "done" /\ result' = "ErrRefuse" /\ i' = i))
        /\ (pc = "done" => pc' = "done") ]_vars

C3_Witness ==
    /\ pc = "done"
    /\ result = "ErrRefuse"
    /\ i < Len(keystore_paths)
    /\ files[pubkey[keystore_paths[i]]] # {}
    /\ Untouched(keystore_paths[i + 1])

\* C4: the definitions file is written only by the save step of an iteration,
\* and that step is taken only when the copy of the current candidate is at
\* its destination and the original is removed.
C4_SaveAfterRelocation ==
    [][ (pc = "save" \/ saved' # saved) =>
            (pc = "save" /\ Relocated(Cur)) ]_vars

C4_Witness ==
    /\ Len(saved) > Len(loaded)
    /\ i = 2
    /\ pc = "save"

\* C5: if the registry and the validator directory satisfy I1 when the run
\* starts, the definitions file and the validator directory satisfy I1 in
\* every state of the run.
C5_RegistryDirectoryInvariant ==
    I1(loaded, root0.dirs, root0.files) => I1(saved, dirs, files)

C5_Witness ==
    /\ I1(loaded, root0.dirs, root0.files)
    /\ loaded # <<>>
    /\ Len(saved) > Len(loaded)

\* C6 as claimed: whatever the registry and the validator directory hold at
\* the start, the registry never holds two definitions with the same identity.
C6_NeverSharedIdentity == Unique(defs) /\ Unique(saved)

\* C6 as amended: if every identity of the registry loaded at the start has
\* its directory in the validator directory at the start, the registry never
\* holds two definitions with the same identity.
C6_UniqueGivenDirectories ==
    (IdsOf(loaded) \subseteq root0.dirs) => (Unique(defs) /\ Unique(saved))

C6_Witness ==
    /\ IdsOf(loaded) \subseteq root0.dirs
    /\ loaded # <<>>
    /\ result = "ErrRefuse"
    /\ i = 2
    /\ pubkey[1] = pubkey[2]
    /\ Len(defs) = Len(loaded) + 1

\* C7: when the run has returned an error in the iteration of the i-th
\* candidate, it has ended, every earlier candidate is imported (copy at its
\* destination, original removed, definition in the definitions file) and
\* nothing of a later candidate has happened.
C7_FailFast ==
    result \in Errors =>
        /\ pc = "done"
        /\ \A j \in 1..Len(keystore_paths) :
              /\ j < i => Imported(keystore_paths[j])
              /\ j > i => Untouched(keystore_paths[j])

C7_Witness ==
    /\ result \in Errors
    /\ i = 2
    /\ Imported(keystore_paths[1])

\* C8: in no state of the run is a keystore both at its original path and,
\* whole, in its destination directory.
C8_NeverDuplicated ==
    \A c \in Candidates : ~(orig[c] /\ Copied(c))

\* The passwords of the decrypt attempts, in order.
AttemptedPasswords == [k \in 1..Len(attempts) |-> attempts[k].pw]

\* C9: when the decrypt attempts of a candidate were k attempts answered
\* InvalidPassword followed by one answered Ok, the loop has ended with
\* Some(the correct password), there was one decrypt attempt per password
\* read, in the order read, and none of the first k was the correct one; and
\* the loop never ends with Some(p) for a p that is not the correct password.
C9_PasswordLoop ==
    /\ (/\ attempts # <<>>
        /\ attempts[Len(attempts)].res = "Ok"
        /\ \A k \in 1..(Len(attempts) - 1) : attempts[k].res = "InvalidPassword")
       => /\ pc # "password"
          /\ password_opt = attempts[Len(attempts)].pw
          /\ password_opt = CorrectPw(Cur)
          /\ AttemptedPasswords = offered
          /\ \A k \in 1..(Len(attempts) - 1) : attempts[k].pw # CorrectPw(Cur)
    /\ password_opt # None => password_opt = CorrectPw(Cur)

C9_Witness ==
    /\ pc = "dup_check"
    /\ Len(attempts) = 3
    /\ attempts[1].res = "InvalidPassword"
    /\ attempts[2].res = "InvalidPassword"
    /\ password_opt = CorrectPw(Cur)

\* C10 as claimed: whenever the run has ended, a summary count was printed and
\* it is the number of candidates imported in the run.
C10_SummaryAlways ==
    pc = "done" => (summary # None /\ summary = NumImported)

\* C10 as amended: the summary count is printed exactly when the run ends with
\* Ok after the loop over a non-empty list of candidates, and it then is the
\* number of candidates imported, which is all of them; a run that ends with
\* an error, or with no keystore found, prints no summary count.
C10_SummaryOnSuccess ==
    pc = "done" =>
        /\ summary # None <=> (result = "Ok" /\ keystore_paths # <<>>)
        /\ summary # None =>
              (summary = NumImported /\ summary = Len(keystore_paths))

C10_Witness ==
    /\ pc = "done"
    /\ summary = 2
    /\ loaded # <<>>

\* C11: in directory mode, when the search succeeds and finds no keystore,
\* the step that collects the paths returns Ok; no password was read or tried,
\* the candidate files, the per-key directories and their files are as they
\* were, the registry in memory and on disk is the one loaded, no save was
\* called and no summary count is printed.
C11_EmptyDirectoryNoOp ==
    [][ (/\ pc = "collect"
         /\ ~keystore /\ keystores_dir
         /\ FindVotingKeystores = <<>>
         /\ result' # "ErrSearch")
        => /\ pc' = "done"
           /\ result' = "Ok"
           /\ keystore_paths' = <<>>
           /\ offered' = <<>> /\ attempts' = <<>>
           /\ defs' = loaded /\ saved' = loaded
           /\ orig' = orig
           /\ dirs' = root0.dirs /\ files' = root0.files
           /\ \A c \in Candidates : save_calls'[c] = 0
           /\ summary' = None ]_vars

C11_Witness ==
    /\ pc = "done"
    /\ result = "Ok"
    /\ ~keystore /\ keystores_dir
    /\ keystore_paths = <<>>
    /\ loaded # <<>>

RegistryUntouched ==
    /\ defs = saved
    /\ save_calls[Cur] = 0
    /\ Len(saved) = Len(loaded) + (i - 1)

\* C13: when the copy succeeded and the removal of the original failed, then,
\* if the original was still there at the check, the run has ended with the
\* relocation error, the copy is deleted, the original is in place and the
\* registry is untouched; if the original was gone at the check, the run has
\* ended with the other error, the copy is kept and the registry is untouched.
C13_RemovalFailure ==
    /\ (pc = "done" /\ result \in {"ErrDelete", "ErrRemoveCopied"}) =>
          /\ result = "ErrDelete"
          /\ orig[Cur]
          /\ ~PathExists(moved_path, dirs, files)
          /\ RegistryUntouched
    /\ result = "ErrMoving" =>
          /\ ~orig[Cur]
          /\ Copied(Cur)
          /\ RegistryUntouched

\* C14: when the copy has failed, the run has ended with the original still
\* at its path, the registry untouched and no file at the destination path.
C14_CopyFailure ==
    result = "ErrCopy" =>
        /\ pc = "done"
        /\ orig[Cur]
        /\ RegistryUntouched
        /\ ~PathExists(moved_path, dirs, files)

\* C15: when the save of the current candidate does not write the registry
\* held in memory, the run ends there with the save error and stays ended; the
\* copy of the candidate is at its destination and its original is removed;
\* the definitions file is unchanged: it holds the registry in memory without
\* its last definition, with the definitions of the earlier candidates and
\* without the one of this candidate; and no later candidate is touched.
C15_SaveFailure ==
    [][ /\ (pc = "save" /\ saved' # defs) =>
              /\ pc' = "done"
              /\ result' = "ErrSave"
              /\ i' = i
              /\ saved' = saved
              /\ UNCHANGED <<orig, dirs, files>>
              /\ Relocated(Cur)
              /\ saved = SubSeq(defs, 1, Len(defs) - 1)
              /\ ~Registered(Cur)
              /\ \A j \in 1..Len(keystore_paths) :
                    /\ j < i => Registered(keystore_paths[j])
                    /\ j > i => Untouched(keystore_paths[j])
        /\ (pc = "done" => pc' = "done") ]_vars

C15_Witness ==
    /\ pc = "done"
    /\ result = "ErrSave"
    /\ i = 2
    /\ Len(saved) = Len(loaded) + 1
    /\ Len(defs) = Len(loaded) + 2

\* C16: the definition pushed for a candidate is appended to the registry in
\* memory with the password outcome of that candidate's password loop: None
\* exactly when the last password read was empty, for which no decrypt attempt
\* was made; otherwise the password of the last decrypt attempt, which was
\* answered Ok.  It is no password answered InvalidPassword and not the
\* password of a keystore with another password.
C16_StoredPassword ==
    [][ (pc = "new_def" /\ defs' # defs) =>
          LET d == defs'[Len(defs')]
              n == Len(attempts)
          IN /\ defs' = Append(defs, d)
             /\ d.password = password_opt
             /\ d.password = None <=> offered[Len(offered)] = EmptyInput
             /\ d.password = None => n = Len(offered) - 1
             /\ d.password # None =>
                   /\ n = Len(offered)
                   /\ attempts[n].pw = d.password
                   /\ attempts[n].res = "Ok"
                   /\ d.password = CorrectPw(Cur)
             /\ \A k \in 1..n :
                   attempts[k].res = "InvalidPassword" => attempts[k].pw # d.password
             /\ \A c \in Candidates :
                   CorrectPw(c) # CorrectPw(Cur) => d.password # CorrectPw(c) ]_vars

C16_Witness ==
    /\ pc = "save"
    /\ i = 2
    /\ Len(attempts) = 2
    /\ defs[Len(defs)].password = CorrectPw(Cur)
    /\ defs[Len(defs) - 1].password = None

\* C17: the steps of an iteration before the duplicate check (permission
\* check, parse, password loop) change neither the registry, nor the
\* definitions file, nor the per-key directories and their files, nor the
\* candidate files; while they run nothing of the candidate is at a destination
\* and the registry is as the last save left it; an error of one of them ends
\* the run; a decrypt attempt answered with an error other than
\* InvalidPassword ends the run with the decrypt error; after the end no
\* password is read.
C17_EarlyFailureNoMutation ==
    [][ /\ pc \in {"perm_check", "parse", "password"} =>
              /\ UNCHANGED <<defs, saved, config, dirs, files, orig, moved_path,
                             save_calls>>
              /\ moved_path = NoPath
              /\ RegistryUntouched
              /\ \A id \in Identities : \A f \in files[id] : f.name # Cur
              /\ result' # "running" =>
                    /\ pc' = "done"
                    /\ result' \in {"ErrPerm", "ErrJson", "ErrRead", "ErrDecrypt"}
        /\ (/\ pc = "password"
            /\ attempts' # attempts
            /\ attempts'[Len(attempts')].res = "Other")
           => (pc' = "done" /\ result' = "ErrDecrypt")
        /\ pc = "done" => (pc' = "done" /\ offered' = offered) ]_vars

C17_Witness ==
    /\ pc = "done"
    /\ result = "ErrDecrypt"
    /\ i = 2
    /\ Len(attempts) = 2
    /\ attempts[1].res = "InvalidPassword"

\* The last decrypt attempt of the step.
LastAttempt == attempts'[Len(attempts')]

\* C18: a turn of the password loop either stays in the loop, after exactly
\* one more decrypt attempt answered InvalidPassword, or leaves it on an empty
\* input (None), on a decrypt attempt answered Ok (Some), on a decrypt attempt
\* answered with another error (the run ends) or on a read error (the run
\* ends); an attempt answered InvalidPassword never leaves the loop.  When the
\* operator answers every prompt and ends every series of invalid passwords
\* with an empty or a correct one, the run ends with Ok or an error.
C18_PasswordLoopExits ==
    /\ [][ pc = "password" =>
            \/ /\ pc' = "password"
               /\ result' = "running"
               /\ attempts' = Append(attempts, LastAttempt)
               /\ offered' = Append(offered, LastAttempt.pw)
               /\ LastAttempt.res = "InvalidPassword"
            \/ /\ pc' = "dup_check"
               /\ offered' = Append(offered, EmptyInput)
               /\ attempts' = attempts
               /\ password_opt' = None
            \/ /\ pc' = "dup_check"
               /\ attempts' = Append(attempts, LastAttempt)
               /\ offered' = Append(offered, LastAttempt.pw)
               /\ LastAttempt.res = "Ok"
               /\ password_opt' = LastAttempt.pw
            \/ /\ pc' = "done"
               /\ result' = "ErrDecrypt"
               /\ attempts' = Append(attempts, LastAttempt)
               /\ LastAttempt.res = "Other"
            \/ /\ pc' = "done"
               /\ result' = "ErrRead"
               /\ attempts' = attempts
               /\ offered' = offered ]_vars
    /\ <>(pc = "done" /\ result \in {"Ok"} \cup Errors)

C18_Witness ==
    /\ pc = "done"
    /\ result = "Ok"
    /\ Len(keystore_paths) = 2
    /\ Len(attempts) = MaxWrong + 1
    /\ attempts[1].res = "InvalidPassword"

\* The errors an iteration can return after it created dest_dir.
PostCreateErrors ==
    {"ErrFileName", "ErrCopy", "ErrRemoveCopied", "ErrDelete", "ErrMoving",
     "ErrNewDef", "ErrSave"}

\* C19 as claimed: when an iteration has failed after it created its
\* destination directory, that directory exists and the definitions file
\* holds no definition with its identity.
C19_LeftoverUnregistered ==
    result \in PostCreateErrors =>
        /\ DestDir \in dirs
        /\ DestDir \notin IdsOf(saved)

\* C19 as amended: when an iteration fails after it created its destination
\* directory, that directory is left in place, and the definitions file holds
\* no definition with its identity unless the registry loaded at the start
\* held one; no step removes a per-key directory; and the duplicate check
\* refuses every candidate whose directory exists, whatever the registry
\* holds.
C19_LeftoverDirectoryRefuses ==
    [][ /\ result' \in PostCreateErrors =>
              /\ DestDir \in dirs'
              /\ DestDir \notin IdsOf(loaded) => DestDir \notin IdsOf(saved')
        /\ dirs \subseteq dirs'
        /\ (pc = "dup_check" /\ DestDir \in dirs) =>
              (pc' = "done" /\ result' = "ErrRefuse") ]_vars

C19_Witness ==
    /\ pc = "done"
    /\ result = "ErrCopy"
    /\ i = 2
    /\ DestDir \in dirs
    /\ DestDir \notin root0.dirs
    /\ DestDir \notin IdsOf(saved)

\* The registry has been loaded into memory.
RegistryOpen ==
    /\ pc \notin {"args", "ensure_dir", "open"}
    /\ result \notin {"ErrArgs", "ErrEnsureDir", "ErrOpen"}

\* The definitions saved by the run.
NumSaved == Len(saved) - Len(loaded)

\* d is the definition of candidate c.
IsDefinitionOf(d, c) ==
    /\ d.identity = pubkey[c]
    /\ d.path = [dir |-> pubkey[c], name |-> c]
    /\ d.enabled

\* The definitions file is the registry loaded at the start, unchanged and in
\* order, followed by the definitions of the first NumSaved candidates, in
\* order; the registry in memory is the same, or the same with the definition
\* of the current candidate appended while its save is to come or has failed.
AppendOnly ==
    /\ NumSaved >= 0
    /\ SubSeq(saved, 1, Len(loaded)) = loaded
    /\ NumSaved <= Len(keystore_paths)
    /\ NumSaved \in {i - 1, i} \/ (i = 0 /\ NumSaved = 0)
    /\ \A j \in 1..NumSaved :
          IsDefinitionOf(saved[Len(loaded) + j], keystore_paths[j])
    /\ RegistryOpen =>
          \/ defs = saved
          \/ /\ pc = "save" \/ result = "ErrSave"
             /\ Len(defs) = Len(saved) + 1
             /\ SubSeq(defs, 1, Len(saved)) = saved
             /\ IsDefinitionOf(defs[Len(defs)], Cur)

\* The relocation of candidate c succeeded: lines 192-209 went through.
RelocationSucceeded(c) ==
    /\ Relocated(c)
    /\ ~(pc = "done" /\ result = "ErrMoving" /\ c = Cur)

\* C20 as claimed: the run is append-only on the registry, and when it has
\* ended, defs.save was called exactly once for every candidate whose
\* relocation succeeded and for no other.
C20_AppendOnlyOneSavePerRelocation ==
    /\ AppendOnly
    /\ pc = "done" =>
          \A c \in Candidates :
              save_calls[c] = IF RelocationSucceeded(c) THEN 1 ELSE 0

\* C20 as amended: the run is append-only on the registry; defs.save is called
\* at most once per candidate and only for a candidate whose relocation
\* succeeded; when the run has ended, the only candidate whose relocation
\* succeeded and for which defs.save was not called is one whose definition
\* could not be built.
C20_AppendOnlyAtMostOneSave ==
    /\ AppendOnly
    /\ \A c \in Candidates :
          /\ save_calls[c] <= 1
          /\ save_calls[c] = 1 => RelocationSucceeded(c)
          /\ (pc = "done" /\ RelocationSucceeded(c) /\ save_calls[c] = 0) =>
                (c = Cur /\ result = "ErrNewDef")

C20_Witness ==
    /\ pc = "done"
    /\ result = "ErrNewDef"
    /\ i = 2
    /\ loaded # <<>>
    /\ NumSaved = 1
    /\ save_calls = [c \in Candidates |-> IF c = 1 THEN 1 ELSE 0]

====
